---- MODULE Spec2Model ----
(***************************************************************************)
(* A model of arxiv_collector.py: main() settling the base name and       *)
(* opening the archive, the latexmk child process writing its dependency   *)
(* trace into a pipe, and collect() reading it line by line, classifying   *)
(* each dependency and adding entries to the output archive.               *)
(* Text is modelled as sequences of one-character strings so that the      *)
(* string tests of the source (startswith, endswith, regex search, strip)  *)
(* are computed rather than assumed.                                       *)
(***************************************************************************)
EXTENDS Integers, Sequences, FiniteSets, TLC

VARIABLES
    packages,        \* args.packages: sequence of package names
    strip_comments,  \* args.strip_comments
    base_name,       \* args.base_name, <<>> when it was not given
    cands,           \* the stems of the .tex files of the working directory
    opened,          \* whether tarfile.open() has created the archive file
    launched,        \* whether latexmk has been started
    closes,          \* how many times the archive has been finalized
    errPipe,         \* proc.stderr: chunks written by latexmk, never read
    childBlocked,    \* latexmk is inside a write to the full stderr pipe
    childPc,         \* latexmk: which part of its output it is writing
    pipe,            \* proc.stdout: lines written by latexmk, not yet read
    returncode,      \* proc.returncode once latexmk has exited
    nDeps,           \* dependency lines latexmk has written so far
    nNoise,          \* other lines latexmk has written so far
    pc,              \* position of main() and collect()
    archive,         \* out_tar: the entries added so far, in order
    err,             \* the exception that ended the run, or "none"
    exitCode,        \* exit status of the program, -1 while running
    cleaned,         \* whether `latexmk -C` has been invoked
    classified,      \* history: the lines that reached the classifier
    lastLine,        \* history: the last line handed to the classifier
    eofAt,           \* history: where next_line() returned '', or "none"
    text,            \* strip_comment: the input line
    once,            \* strip_comment(text)
    twice,           \* strip_comment(strip_comment(text))
    stage            \* strip_comment: how many applications were made

cfgVars   == <<packages, strip_comments, base_name>>
childVars == <<childPc, pipe, returncode, nDeps, nNoise>>
collVars  == <<pc, archive, err, exitCode, cleaned, classified, lastLine, eofAt>>
stripVars == <<text, once, twice, stage>>
mainVars  == <<cands, opened, launched>>
errVars   == <<errPipe, childBlocked>>
vars      == <<cfgVars, childVars, collVars, stripVars, mainVars, closes, errVars>>

----------------------------------------------------------------------------
(* Bounds of the model *)
MaxDeps   == 2    \* dependency lines latexmk writes
MaxNoise  == 1    \* lines latexmk writes outside the dependency block
PipeCap   == 1    \* lines the stdout pipe holds before latexmk blocks
MaxPkgs   == 2    \* length of the package list
MaxLen    == 4    \* length of a line given to strip_comment
ErrCap    == 1    \* chunks the stderr pipe holds before latexmk blocks

----------------------------------------------------------------------------
(* Text literals of the source *)
Main            == <<"m","a","i","n">>
Aux             == <<"a","u","x">>
StartPrefix     == <<"#","=","=","=","D","e","p","e","n","d","e","n","t","s">>
RelatedInfo     == <<","," ","a","n","d"," ","r","e","l","a","t","e","d"," ","i","n","f","o",",">>
ForInfix        == <<" ","f","o","r"," ">>
ColonNL         == <<":","\n">>
EndPrefix       == <<"#","=","=","=","E","n","d"," ","d","e","p","e","n","d","e","n","t","s"," ","f","o","r"," ">>
HeaderSuffix    == <<".","p","d","f"," ",":","\\">>
BblExt          == <<".","b","b","l">>
TexExt          == <<".","t","e","x">>
EpsExt          == <<".","e","p","s">>
PdfExt          == <<".","p","d","f">>
BibExt          == <<".","b","i","b">>
ConvertedSuffix == <<"-","e","p","s","-","c","o","n","v","e","r","t","e","d","-","t","o",".","p","d","f">>
Biblatex        == <<"b","i","b","l","a","t","e","x">>
Slash           == <<"/">>
Whitespace      == {" ", "\t", "\n"}

(* Text used as input *)
Ab              == <<"a","b">>
BiblatexSty     == <<"/","t","/">> \o Biblatex \o Slash \o Biblatex \o <<".","s","t","y">>
AbSty           == <<"/","t","/","a","b","/","k",".","s","t","y">>
CabSty          == <<"/","t","/","c","a","b","/","k",".","s","t","y">>
ArticleCls      == <<"/","t","/","l",".","c","l","s">>
PkgBib          == <<"/","t","/">> \o Biblatex \o <<"/","r">> \o BibExt
PkgEps          == <<"/","t","/">> \o Biblatex \o <<"/","g">> \o EpsExt
PkgConverted    == <<"/","t","/">> \o Biblatex \o <<"/","g">> \o ConvertedSuffix
MainTex         == Main \o TexExt
PlotEps         == <<"f","/","p">> \o EpsExt
PlotConverted   == <<"f","/","p">> \o ConvertedSuffix
PlotPdf         == <<"f","/","p">> \o PdfExt
LinkedEps       == <<"f","/","s">> \o EpsExt
LinkedConverted == <<"f","/","s">> \o ConvertedSuffix
LinkedRaw       == <<"s">> \o PdfExt
LinkedReal      == <<"f","/","s">> \o PdfExt
LoneEps         == <<"f","/","z">> \o EpsExt
RefsBib         == <<"r">> \o BibExt
MainBbl         == Main \o BblExt
LogoPng         == <<"q",".","p","n","g">>
LogoReal        == <<"/","t","/","q",".","p","n","g">>
FigLink         == <<"f","/","l",".","p","n","g">>
FigLogo         == <<"f","/">> \o LogoPng
Paper           == <<"p","a","p","e","r">>
Notes           == <<"n","o","t","e","s">>
DottedName      == <<"a",".","b">>
PathName        == <<"d","/">> \o Main
NoiseText       == <<"L","a","t","e","x","m","k",":"," ","d","o","n","e","\n">>

----------------------------------------------------------------------------
(* String operations of Python, on character sequences *)
SetMax(S) == CHOOSE x \in S : \A y \in S : y <= x
SetMin(S) == CHOOSE x \in S : \A y \in S : x <= y

StartsWith(s, p) == Len(p) <= Len(s) /\ SubSeq(s, 1, Len(p)) = p

EndsWith(s, p) == Len(p) <= Len(s) /\ SubSeq(s, Len(s) - Len(p) + 1, Len(s)) = p

Contains(s, p) == \E i \in 1..(Len(s) - Len(p) + 1) : SubSeq(s, i, i + Len(p) - 1) = p

Strip(s) ==
    LET keep == {i \in 1..Len(s) : s[i] \notin Whitespace}
    IN  IF keep = {} THEN <<>> ELSE SubSeq(s, SetMin(keep), SetMax(keep))

Basename(p) ==
    LET sl == {i \in 1..Len(p) : p[i] = "/"}
    IN  IF sl = {} THEN p ELSE SubSeq(p, SetMax(sl) + 1, Len(p))

----------------------------------------------------------------------------
(* The working directory and the TeX tree, as the run finds them *)
RegularFiles ==
    {BiblatexSty, AbSty, CabSty, ArticleCls, PkgBib, PkgEps, PkgConverted,
     MainTex, PlotEps, PlotConverted, PlotPdf, LinkedEps, LinkedReal, LoneEps,
     RefsBib, MainBbl, LogoReal, FigLogo}

(* symbolic links: path :> the text stored in the link *)
LinkText ==
    (LinkedConverted :> LinkedRaw) @@ (LogoPng :> LogoReal) @@ (FigLink :> LogoPng)

Hang == <<"<loop>">>   \* a symlink cycle: target() never returns

islink(p) == p \in DOMAIN LinkText

readlink(p) == LinkText[p]

lexists(p) == p \in RegularFiles \/ islink(p)

(* what the operating system opens for path p: a relative link text is
   taken relative to the directory of the link *)
RECURSIVE Follow(_, _)
Follow(p, fuel) ==
    IF ~islink(p) THEN p
    ELSE IF fuel = 0 THEN Hang
    ELSE LET t  == readlink(p)
             sl == {i \in 1..Len(p) : p[i] = "/"}
             np == IF StartsWith(t, Slash) \/ sl = {} THEN t
                   ELSE SubSeq(p, 1, SetMax(sl)) \o t
         IN  Follow(np, fuel - 1)

realpath(p) == Follow(p, Cardinality(DOMAIN LinkText))

exists(p) == realpath(p) \in RegularFiles

(* target(): follow readlink() until the name is not a link *)
RECURSIVE TargetLoop(_, _)
TargetLoop(fname, fuel) ==
    IF ~islink(fname) THEN fname
    ELSE IF fuel = 0 THEN Hang
    ELSE TargetLoop(readlink(fname), fuel - 1)

target(fname) == TargetLoop(fname, Cardinality(DOMAIN LinkText))

----------------------------------------------------------------------------
(* pkg_re: '/' + '|'.join(re.escape(p) for p in packages) + '/' *)
RECURSIVE JoinBar(_)
JoinBar(ps) ==
    IF ps = <<>> THEN <<>>
    ELSE IF Len(ps) = 1 THEN ps[1]
    ELSE ps[1] \o <<"|">> \o JoinBar(Tail(ps))

PkgPattern(ps) == Slash \o JoinBar(ps) \o Slash

(* the alternatives of a regular expression made of literals and '|' *)
Alternatives(pat) ==
    LET cuts == {i \in 1..Len(pat) : pat[i] = "|"} \cup {0, Len(pat) + 1}
    IN  {SubSeq(pat, a + 1, b - 1) :
            <<a, b>> \in {ab \in cuts \X cuts :
                            /\ ab[1] < ab[2]
                            /\ \A c \in cuts : ~(ab[1] < c /\ c < ab[2])}}

(* pkg_re.search(dep) *)
PkgSearch(ps, dep) == \E alt \in Alternatives(PkgPattern(ps)) : Contains(dep, alt)

----------------------------------------------------------------------------
(* strip_comment: re.sub(r'(^|[^\\])%.*', r'\1%', line) *)

(* whether the pattern matches starting at position i, and with which group *)
CaretMatch(s, i) == i = 1 /\ Len(s) >= 1 /\ s[1] = "%"

CharMatch(s, i) == i + 1 <= Len(s) /\ s[i] # "\\" /\ s[i + 1] = "%"

(* a variant taking one character where the pattern has `.*` *)
DotStarEndOneChar(s, k) ==
    IF k + 1 <= Len(s) /\ s[k + 1] # "\n" THEN k + 1 ELSE k

(* the last position taken by `.*` after the percent sign at position k *)
DotStarEnd(s, k) ==
    LET nl == {j \in (k + 1)..Len(s) : s[j] = "\n"}
    IN  IF nl = {} THEN Len(s) ELSE SetMin(nl) - 1

(* a variant of the replacement that drops the percent sign *)
ReplacementWithoutPercent(group) == group

(* the replacement r'\1%' *)
Replacement(group) == group \o <<"%">>

RECURSIVE SubFrom(_, _)
SubFrom(s, i) ==
    IF i > Len(s) THEN <<>>
    ELSE IF CaretMatch(s, i)
         THEN Replacement(<<>>) \o SubFrom(s, DotStarEnd(s, i) + 1)
    ELSE IF CharMatch(s, i)
         THEN Replacement(<<s[i]>>) \o SubFrom(s, DotStarEnd(s, i + 1) + 1)
    ELSE <<s[i]>> \o SubFrom(s, i + 1)

strip_comment(s) == SubFrom(s, 1)

----------------------------------------------------------------------------
(* What latexmk may write *)
ExitCodes == {0, 12}

PkgNames == {Biblatex, Ab}

PackageLists ==
    {ps \in UNION {[1..n -> PkgNames] : n \in 0..MaxPkgs} :
        \A i, j \in 1..Len(ps) : ps[i] = ps[j] => i = j}

DepPaths ==
    {BiblatexSty, AbSty, CabSty, ArticleCls, PkgBib, PkgEps, PkgConverted,
     MainTex, PlotEps, PlotConverted, PlotPdf, LinkedEps, LoneEps, RefsBib,
     MainBbl, LogoPng, FigLink}

(* a dependency line as latexmk prints it: indented, continued with '\' *)
DepLine(p, cont) ==
    <<" ">> \o p \o (IF cont THEN <<"\\">> ELSE <<>>) \o <<"\n">>

DepLines == {DepLine(p, TRUE) : p \in DepPaths} \cup {DepLine(RefsBib, FALSE)}

StartLine(b, info) ==
    StartPrefix \o (IF info THEN RelatedInfo ELSE <<>>) \o ForInfix \o b \o ColonNL

HeaderLine(b) == b \o HeaderSuffix \o <<"\n">>

(* the header with blanks around it *)
PaddedHeader(b) == <<" ">> \o b \o HeaderSuffix \o <<" ", "\n">>

HeaderLines(b) == {HeaderLine(b), PaddedHeader(b), HeaderLine(Aux)}

EndLine(b) == EndPrefix \o b \o ColonNL

NoiseLines == {NoiseText, StartLine(Aux, FALSE)}

(* What main() may be given *)
ArgNames == {<<>>, Main, MainTex, DottedName, PathName}

Stems == {Main, Paper, Notes, DottedName}

Directories == SUBSET Stems

----------------------------------------------------------------------------
(* main(): the base name *)
KnownNames == {Main, Paper}

(* a variant of the guess that keeps every candidate *)
CandidatesUnfiltered(S) == S

(* cands = [c[:-4] for c in glob('*.tex')]; if len(cands) > 1: cands =
   list(set(cands) & {'main', 'paper'}) *)
Candidates(S) == IF Cardinality(S) > 1 THEN S \cap KnownNames ELSE S

(* if args.base_name.endswith('.tex'): args.base_name = args.base_name[:-4] *)
WithoutTex(n) == IF EndsWith(n, TexExt) THEN SubSeq(n, 1, Len(n) - 4) ELSE n

(* a variant of the tests that looks for the path separator only *)
InvalidSeparatorOnly(n) == Contains(n, Slash)

(* '.' in args.base_name, '/' in args.base_name *)
Invalid(n) == Contains(n, <<".">>) \/ Contains(n, Slash)

----------------------------------------------------------------------------
(* collect(): the tests it makes on a line *)

(* re.compile(pat).match(line), pat = '#===Dependents(, and related info,)?
   for {base_name}:\n' *)
StartMatch(line, b) ==
    StartsWith(line, StartLine(b, FALSE)) \/ StartsWith(line, StartLine(b, TRUE))

(* a variant that takes any line for the header *)
HeaderOkUnchecked(line, b) == TRUE

(* next_line().strip() == '{}.pdf :\\'.format(base_name) *)
HeaderOk(line, b) == Strip(line) = b \o HeaderSuffix

(* a variant of end_line without the line terminator, which no line read
   from the stream equals *)
end_line_unterminated(b) == EndPrefix \o b \o <<":">>

(* end_line = '#===End dependents for {}:\n'.format(base_name) *)
end_line(b) == EndPrefix \o b \o ColonNL

(* dep = line.strip(); if dep.endswith('\\'): dep = dep[:-1] *)
DepOf(line) ==
    LET d == Strip(line)
    IN  IF EndsWith(d, <<"\\">>) THEN SubSeq(d, 1, Len(d) - 1) ELSE d

(* outcomes of one classification *)
Skip == [kind |-> "skip", name |-> <<>>, src |-> <<>>, how |-> "none", err |-> "none"]

Raise(e) == [kind |-> "raise", name |-> <<>>, src |-> <<>>, how |-> "none", err |-> e]

(* out_tar.add(name, arcname=arcname): os.lstat(name) must succeed *)
TarAdd(name, arcname) ==
    IF name = Hang THEN [kind |-> "hang", name |-> <<>>, src |-> <<>>, how |-> "none", err |-> "none"]
    ELSE IF ~lexists(name) THEN Raise("OSError")
    ELSE [kind |-> "add", name |-> arcname, src |-> name, how |-> "file", err |-> "none"]

(* history: the rule of the if/elif chain that produced an entry *)
By(rule, r) == IF r.kind = "add" THEN [r EXCEPT !.how = rule] ELSE r

(* io.open(dep), every line through strip_comment, out_tar.addfile(info, g) *)
AddStripped(dep) ==
    IF ~exists(dep) THEN Raise("OSError")
    ELSE [kind |-> "add", name |-> dep, src |-> realpath(dep), how |-> "stripped", err |-> "none"]

(* a variant of the .eps branch that keeps the name of the dependency *)
EpsBranchKeepsName(dep) ==
    LET base == SubSeq(dep, 1, Len(dep) - 4)
        pdf  == base \o ConvertedSuffix
    IN  IF ~exists(pdf) THEN Raise("MissingCompanion")
        ELSE By("eps", TarAdd(target(pdf), dep))

(* the .eps branch *)
EpsBranch(dep) ==
    LET base == SubSeq(dep, 1, Len(dep) - 4)
        pdf  == base \o ConvertedSuffix
    IN  IF ~exists(pdf) THEN Raise("MissingCompanion")
        ELSE By("eps", TarAdd(target(pdf), base \o PdfExt))

(* the absolute-path branch *)
AbsBranch(dep, ps) ==
    IF PkgSearch(ps, dep) THEN By("package", TarAdd(target(dep), Basename(dep))) ELSE Skip

(* a variant of the chain without the .bib rule *)
ClassifyWithoutBibRule(dep, ps, strip) ==
    IF StartsWith(dep, Slash) THEN AbsBranch(dep, ps)
    ELSE IF EndsWith(dep, TexExt) /\ strip THEN AddStripped(dep)
    ELSE IF EndsWith(dep, EpsExt) THEN EpsBranch(dep)
    ELSE IF EndsWith(dep, ConvertedSuffix) THEN Skip
    ELSE By("other", TarAdd(target(dep), dep))

(* a variant of the chain without the rule for converted companions *)
ClassifyWithoutConvertedRule(dep, ps, strip) ==
    IF StartsWith(dep, Slash) THEN AbsBranch(dep, ps)
    ELSE IF EndsWith(dep, TexExt) /\ strip THEN AddStripped(dep)
    ELSE IF EndsWith(dep, EpsExt) THEN EpsBranch(dep)
    ELSE IF EndsWith(dep, BibExt) THEN Skip
    ELSE By("other", TarAdd(target(dep), dep))

(* the if/elif chain of the loop body *)
Classify(dep, ps, strip) ==
    IF StartsWith(dep, Slash) THEN AbsBranch(dep, ps)
    ELSE IF EndsWith(dep, TexExt) /\ strip THEN AddStripped(dep)
    ELSE IF EndsWith(dep, EpsExt) THEN EpsBranch(dep)
    ELSE IF EndsWith(dep, ConvertedSuffix) THEN Skip
    ELSE IF EndsWith(dep, BibExt) THEN Skip
    ELSE By("other", TarAdd(target(dep), dep))

----------------------------------------------------------------------------
(* The state machine *)
Terminal == {"done", "aborted", "exited", "hung", "usage"}

NoLast == [dep |-> <<>>, kind |-> "none", added |-> 0]

StripIdle == text = <<>> /\ once = <<>> /\ twice = <<>> /\ stage = 0

(* the state after parser.parse_args(), in a working directory whose .tex
   files have one of the given sets of stems *)
InitIn(dirs) ==
    /\ packages \in PackageLists
    /\ strip_comments \in BOOLEAN
    /\ base_name \in ArgNames
    /\ cands \in dirs
    /\ opened = FALSE
    /\ launched = FALSE
    /\ closes = 0
    /\ errPipe = 0
    /\ childBlocked = FALSE
    /\ childPc = "pre"
    /\ pipe = <<>>
    /\ returncode = -1
    /\ nDeps = 0
    /\ nNoise = 0
    /\ pc = "args"
    /\ archive = <<>>
    /\ err = "none"
    /\ exitCode = -1
    /\ cleaned = FALSE
    /\ classified = <<>>
    /\ lastLine = NoLast
    /\ eofAt = "none"
    /\ StripIdle

Init == InitIn({{Main}})

(* parser.error(): argparse prints the usage and exits with status 2 *)
UsageError == pc' = "usage" /\ err' = "UsageError" /\ exitCode' = 2

(* if not args.base_name: ... the guess from glob('*.tex') *)
GuessName ==
    /\ pc = "args"
    /\ IF base_name # <<>>
         THEN pc' = "check" /\ UNCHANGED <<base_name, err, exitCode>>
         ELSE LET c == Candidates(cands)
              IN  IF Cardinality(c) = 1
                    THEN /\ base_name' = (CHOOSE x \in c : TRUE)
                         /\ pc' = "check"
                         /\ UNCHANGED <<err, exitCode>>
                    ELSE UsageError /\ UNCHANGED base_name
    /\ UNCHANGED <<packages, strip_comments, archive, cleaned, classified, lastLine, eofAt>>
    /\ UNCHANGED <<childVars, stripVars, mainVars, closes, errVars>>

(* the removal of a trailing '.tex' and the tests for '.' and '/' *)
CheckName ==
    /\ pc = "check"
    /\ base_name' = WithoutTex(base_name)
    /\ IF Invalid(WithoutTex(base_name))
         THEN UsageError
         ELSE pc' = "open" /\ UNCHANGED <<err, exitCode>>
    /\ UNCHANGED <<packages, strip_comments, archive, cleaned, classified, lastLine, eofAt>>
    /\ UNCHANGED <<childVars, stripVars, mainVars, closes, errVars>>

(* with tarfile.open(args.dest, mode='w:gz') as t: the file is created *)
OpenArchive ==
    /\ pc = "open"
    /\ opened' = TRUE
    /\ pc' = "launch"
    /\ UNCHANGED <<archive, err, exitCode, cleaned, classified, lastLine, eofAt>>
    /\ UNCHANGED <<cfgVars, childVars, stripVars, cands, launched, closes, errVars>>

(* collect(): proc = subprocess.Popen(['latexmk', ...], stdout=PIPE,
   stderr=PIPE) *)
Launch ==
    /\ pc = "launch"
    /\ launched' = TRUE
    /\ pc' = "scan"
    /\ UNCHANGED <<archive, err, exitCode, cleaned, classified, lastLine, eofAt>>
    /\ UNCHANGED <<cfgVars, childVars, stripVars, cands, opened, closes, errVars>>

(* latexmk: it runs once started; a write blocks while the pipe is full, and
   fails once the reading end is gone *)
Running == launched /\ childPc # "exited" /\ ~childBlocked /\ pc \notin Terminal

CanWrite == Running /\ Len(pipe) < PipeCap

Write(t, role, idx) == pipe' = Append(pipe, [txt |-> t, role |-> role, idx |-> idx])

ChildNoise ==
    /\ childPc \in {"pre", "post"}
    /\ nNoise < MaxNoise
    /\ CanWrite
    /\ \E t \in NoiseLines : Write(t, "noise", 0)
    /\ nNoise' = nNoise + 1
    /\ UNCHANGED <<childPc, returncode, nDeps, cfgVars, collVars, stripVars>>
    /\ UNCHANGED <<mainVars, closes, errVars>>

ChildStart ==
    /\ childPc = "pre"
    /\ CanWrite
    /\ \E info \in BOOLEAN : Write(StartLine(base_name, info), "start", 0)
    /\ childPc' = "hdr"
    /\ UNCHANGED <<returncode, nDeps, nNoise, cfgVars, collVars, stripVars>>
    /\ UNCHANGED <<mainVars, closes, errVars>>

ChildHeader ==
    /\ childPc = "hdr"
    /\ CanWrite
    /\ \E h \in HeaderLines(base_name) : Write(h, "header", 0)
    /\ childPc' = "deps"
    /\ UNCHANGED <<returncode, nDeps, nNoise, cfgVars, collVars, stripVars>>
    /\ UNCHANGED <<mainVars, closes, errVars>>

ChildDep ==
    /\ childPc = "deps"
    /\ nDeps < MaxDeps
    /\ CanWrite
    /\ \E l \in DepLines : Write(l, "dep", nDeps + 1)
    /\ nDeps' = nDeps + 1
    /\ UNCHANGED <<childPc, returncode, nNoise, cfgVars, collVars, stripVars>>
    /\ UNCHANGED <<mainVars, closes, errVars>>

ChildEnd ==
    /\ childPc = "deps"
    /\ CanWrite
    /\ Write(EndLine(base_name), "end", 0)
    /\ childPc' = "post"
    /\ UNCHANGED <<returncode, nDeps, nNoise, cfgVars, collVars, stripVars>>
    /\ UNCHANGED <<mainVars, closes, errVars>>

ChildExit ==
    /\ Running
    /\ \E c \in ExitCodes : returncode' = c
    /\ childPc' = "exited"
    /\ UNCHANGED <<pipe, nDeps, nNoise, cfgVars, collVars, stripVars>>
    /\ UNCHANGED <<mainVars, closes, errVars>>

(* latexmk writes a chunk of diagnostics to its standard error, which is a
   pipe that collect() never reads: the write blocks once the pipe is full *)
ChildWarn ==
    /\ Running
    /\ IF errPipe < ErrCap
         THEN errPipe' = errPipe + 1 /\ UNCHANGED childBlocked
         ELSE childBlocked' = TRUE /\ UNCHANGED errPipe
    /\ UNCHANGED <<cfgVars, childVars, collVars, stripVars, mainVars, closes>>

(* next_line(): proc.stdout.readline() blocks until a line is there or the
   stream has ended, and returns '' at the end of the stream *)
CanRead == pipe # <<>> \/ childPc = "exited"

next_line == IF pipe # <<>> THEN Head(pipe).txt ELSE <<>>

Consume == pipe' = (IF pipe # <<>> THEN Tail(pipe) ELSE pipe)

(* a variant of the exit of the with statement that closes the archive
   whether or not an exception is passing *)
ExitWithAlwaysClosing(raised) == closes' = closes + 1

(* TarFile.__exit__: close() writes the end of the archive when the body
   ended without an exception; otherwise only the file is released *)
ExitWith(raised) == closes' = (IF raised THEN closes ELSE closes + 1)

(* an exception leaves collect() and the with statement of main() *)
Fail(e) == pc' = "aborted" /\ err' = e /\ exitCode' = 1 /\ ExitWith(TRUE)

(* consume(read_until(re.compile(pat).match)): one iteration *)
ScanPreamble ==
    /\ pc = "scan"
    /\ CanRead
    /\ Consume
    /\ IF next_line = <<>>
         THEN Fail("UnexpectedEOF") /\ eofAt' = pc
         ELSE /\ pc' = (IF StartMatch(next_line, base_name) THEN "header" ELSE "scan")
              /\ UNCHANGED <<err, exitCode, eofAt, closes>>
    /\ UNCHANGED <<archive, cleaned, classified, lastLine>>
    /\ UNCHANGED <<childPc, returncode, nDeps, nNoise, cfgVars, stripVars>>
    /\ UNCHANGED <<mainVars, errVars>>

(* assert next_line().strip() == '{}.pdf :\\'.format(base_name) *)
ReadHeader ==
    /\ pc = "header"
    /\ CanRead
    /\ Consume
    /\ IF HeaderOk(next_line, base_name)
         THEN pc' = "block" /\ UNCHANGED <<err, exitCode, closes>>
         ELSE Fail("BadHeader")
    /\ eofAt' = (IF next_line = <<>> THEN pc ELSE eofAt)
    /\ UNCHANGED <<archive, cleaned, classified, lastLine>>
    /\ UNCHANGED <<childPc, returncode, nDeps, nNoise, cfgVars, stripVars>>
    /\ UNCHANGED <<mainVars, errVars>>

(* for line in read_until(end_line.__eq__): one iteration with its body *)
ReadBlock ==
    /\ pc = "block"
    /\ CanRead
    /\ Consume
    /\ IF next_line = <<>> THEN
            /\ Fail("UnexpectedEOF")
            /\ eofAt' = pc
            /\ UNCHANGED <<archive, classified, lastLine>>
       ELSE IF next_line = end_line(base_name) THEN
            /\ pc' = "drain"
            /\ UNCHANGED <<err, exitCode, archive, classified, lastLine, eofAt, closes>>
       ELSE LET dep == DepOf(next_line)
                r   == Classify(dep, packages, strip_comments)
                src == Head(pipe)
            IN  /\ classified' = Append(classified, [role |-> src.role, idx |-> src.idx])
                /\ lastLine' = [dep |-> dep, kind |-> r.kind,
                                added |-> IF r.kind = "add" THEN 1 ELSE 0]
                /\ archive' = (IF r.kind = "add"
                                 THEN Append(archive, [name |-> r.name, src |-> r.src,
                                                       how |-> r.how, line |-> src.idx])
                                 ELSE archive)
                /\ IF r.kind = "raise" THEN Fail(r.err)
                   ELSE /\ pc' = (IF r.kind = "hang" THEN "hung" ELSE "block")
                        /\ UNCHANGED <<err, exitCode, closes>>
                /\ UNCHANGED eofAt
    /\ UNCHANGED cleaned
    /\ UNCHANGED <<childPc, returncode, nDeps, nNoise, cfgVars, stripVars>>
    /\ UNCHANGED <<mainVars, errVars>>

(* a variant of the drain that takes what the pipe holds at the moment and
   goes on without waiting for the end of the stream *)
DrainAvailable ==
    /\ pc = "drain"
    /\ pipe' = <<>>
    /\ pc' = "wait"
    /\ UNCHANGED <<archive, err, exitCode, cleaned, classified, lastLine, eofAt>>
    /\ UNCHANGED <<childPc, returncode, nDeps, nNoise, cfgVars, stripVars>>
    /\ UNCHANGED <<mainVars, closes, errVars>>

(* consume(iter(proc.stdout.read, b'')): read() returns at the end of the
   stream only, taking whatever latexmk writes until then *)
Drain ==
    /\ pc = "drain"
    /\ CanRead
    /\ IF pipe # <<>>
         THEN pipe' = <<>> /\ pc' = "drain"
         ELSE pipe' = pipe /\ pc' = "wait"
    /\ UNCHANGED <<archive, err, exitCode, cleaned, classified, lastLine, eofAt>>
    /\ UNCHANGED <<childPc, returncode, nDeps, nNoise, cfgVars, stripVars>>
    /\ UNCHANGED <<mainVars, closes, errVars>>

(* proc.wait(); if proc.returncode: *)
Wait ==
    /\ pc = "wait"
    /\ childPc = "exited"
    /\ pc' = (IF returncode # 0 THEN "clean" ELSE "bbl")
    /\ UNCHANGED <<archive, err, exitCode, cleaned, classified, lastLine, eofAt>>
    /\ UNCHANGED <<childVars, cfgVars, stripVars, mainVars, closes, errVars>>

(* subprocess.check_call(['latexmk', '-C', base_name]); sys.exit(returncode):
   SystemExit leaves the with statement as any exception does *)
Clean ==
    /\ pc = "clean"
    /\ cleaned' = TRUE
    /\ \E ok \in BOOLEAN :
          IF ok THEN /\ pc' = "exited"
                     /\ err' = "SystemExit"
                     /\ exitCode' = returncode
                     /\ ExitWith(TRUE)
                ELSE Fail("CalledProcessError")
    /\ UNCHANGED <<archive, classified, lastLine, eofAt>>
    /\ UNCHANGED <<childVars, cfgVars, stripVars, mainVars, errVars>>

(* out_tar.add('{}.bbl'.format(base_name)), after which collect() returns *)
AddBbl ==
    /\ pc = "bbl"
    /\ LET r == TarAdd(base_name \o BblExt, base_name \o BblExt)
       IN  IF r.kind = "add"
             THEN /\ archive' = Append(archive, [name |-> r.name, src |-> r.src,
                                                 how |-> "bbl", line |-> 0])
                  /\ pc' = "returned"
                  /\ UNCHANGED <<err, exitCode, closes>>
             ELSE Fail(r.err) /\ UNCHANGED archive
    /\ UNCHANGED <<cleaned, classified, lastLine, eofAt>>
    /\ UNCHANGED <<childVars, cfgVars, stripVars, mainVars, errVars>>

(* the end of the with statement of main() after collect() has returned,
   print("Output in ..."), and the end of the program *)
CloseArchive ==
    /\ pc = "returned"
    /\ ExitWith(FALSE)
    /\ pc' = "done"
    /\ exitCode' = 0
    /\ UNCHANGED <<archive, err, cleaned, classified, lastLine, eofAt>>
    /\ UNCHANGED <<childVars, cfgVars, stripVars, mainVars, errVars>>

MainNext == GuessName \/ CheckName \/ OpenArchive \/ Launch

Next ==
    \/ GuessName \/ CheckName \/ OpenArchive \/ Launch
    \/ ChildNoise \/ ChildStart \/ ChildHeader \/ ChildDep \/ ChildEnd \/ ChildExit
    \/ ScanPreamble \/ ReadHeader \/ ReadBlock \/ Drain \/ Wait \/ Clean \/ AddBbl
    \/ CloseArchive

(* the runs in which latexmk -silent writes nothing to its standard error *)
Spec == Init /\ [][Next]_vars

(* main() up to the start of latexmk, in every working directory *)
InitMain == InitIn(Directories) /\ packages = <<Biblatex>> /\ strip_comments = TRUE

SpecMain == InitMain /\ [][MainNext]_vars

(* the runs of the default configuration in which latexmk also writes to its
   standard error *)
InitPipes == Init /\ packages = <<Biblatex>> /\ strip_comments = TRUE /\ base_name = Main

NextPipes == Next \/ ChildWarn

SpecPipes == InitPipes /\ [][NextPipes]_vars

----------------------------------------------------------------------------
(* strip_comment applied to every short line *)
Alphabet == {"%", "\\", "a", "\n"}

Lines == UNION {[1..n -> Alphabet] : n \in 0..MaxLen}

InitStrip ==
    /\ text \in Lines
    /\ once = <<>>
    /\ twice = <<>>
    /\ stage = 0
    /\ packages = <<Biblatex>>
    /\ strip_comments = TRUE
    /\ base_name = Main
    /\ cands = {Main}
    /\ opened = FALSE
    /\ launched = FALSE
    /\ closes = 0
    /\ errPipe = 0
    /\ childBlocked = FALSE
    /\ childPc = "pre"
    /\ pipe = <<>>
    /\ returncode = -1
    /\ nDeps = 0
    /\ nNoise = 0
    /\ pc = "args"
    /\ archive = <<>>
    /\ err = "none"
    /\ exitCode = -1
    /\ cleaned = FALSE
    /\ classified = <<>>
    /\ lastLine = NoLast
    /\ eofAt = "none"

StripOnce ==
    /\ stage = 0
    /\ once' = strip_comment(text)
    /\ stage' = 1
    /\ UNCHANGED <<text, twice, cfgVars, childVars, collVars, mainVars, closes, errVars>>

StripTwice ==
    /\ stage = 1
    /\ twice' = strip_comment(once)
    /\ stage' = 2
    /\ UNCHANGED <<text, once, cfgVars, childVars, collVars, mainVars, closes, errVars>>

NextStrip == StripOnce \/ StripTwice

SpecStrip == InitStrip /\ [][NextStrip]_vars

----------------------------------------------------------------------------
(* Properties of a run of collect() *)
BblName == base_name \o BblExt

Entries == {archive[i] : i \in 1..Len(archive)}

(* C1: the lines that reach the classifier are the dependency lines of the
   block, each once and in the order latexmk wrote them (never a line before
   the start marker, the header, or a line after the end marker); the entries
   of the archive are in the order of the lines that produced them; once the
   end marker has been read every dependency line was classified; and when
   collect() returns, the .bbl entry is the last entry, after every other
   one. *)
BlockInOrder ==
    /\ \A i \in 1..Len(classified) :
          classified[i].role = "dep" /\ classified[i].idx = i
    /\ \A i \in 1..Len(archive) :
          archive[i].how # "bbl" => archive[i].line \in 1..Len(classified)
    /\ \A i, j \in 1..Len(archive) :
          (i < j /\ archive[j].how # "bbl") =>
              (archive[i].how # "bbl" /\ archive[i].line < archive[j].line)
    /\ pc \in {"drain", "wait", "clean", "bbl", "returned", "done", "exited"} =>
          Len(classified) = nDeps
    /\ pc = "done" =>
          /\ returncode = 0
          /\ Len(archive) >= 1
          /\ archive[Len(archive)].how = "bbl"
          /\ archive[Len(archive)].name = BblName
          /\ \A i \in 1..(Len(archive) - 1) : archive[i].how # "bbl"

BlockInOrderWitness ==
    /\ pc = "done"
    /\ Len(classified) = MaxDeps
    /\ Len(archive) = MaxDeps + 1
    /\ archive[1].name # archive[2].name

(* C2: when latexmk has exited with a code other than 0, the program ends
   having invoked `latexmk -C`, with that same exit code, and with no
   <base_name>.bbl entry in the archive. *)
FailedBuildExitsWithCode ==
    (pc \in Terminal /\ childPc = "exited" /\ returncode # 0) =>
        /\ cleaned
        /\ exitCode = returncode
        /\ \A e \in Entries : e.name # BblName

(* the dependency most recently classified, and the entries it produced *)
LastDep == lastLine.dep

SomeLine == lastLine.kind # "none"

Produced == {e \in Entries : e.how # "bbl" /\ e.line = Len(classified)}

Absolute(p) == StartsWith(p, Slash)

InSomePackage(ps, p) == \E i \in 1..Len(ps) : Contains(p, Slash \o ps[i] \o Slash)

(* C3: an absolute dependency path produces an entry exactly when it
   contains /<pkg>/ for one of the configured packages, and the entry is
   then named by the base filename of the path. *)
PackageFilterExact ==
    (SomeLine /\ Absolute(LastDep)) =>
        /\ (Produced # {}) <=> InSomePackage(packages, LastDep)
        /\ \A e \in Produced : e.name = Basename(LastDep)

(* C4, as stated: a dependency line ending in .bib never produces an entry. *)
BibNeverAdded ==
    (SomeLine /\ EndsWith(LastDep, BibExt)) => Produced = {}

(* C4, amended: a dependency line ending in .bib that is relative, or that
   is absolute and not selected by pkg_re, is skipped and produces no entry;
   the only entries named *.bib come from the package rule. *)
BibSkippedUnlessPackage ==
    /\ (SomeLine /\ EndsWith(LastDep, BibExt)
          /\ (~Absolute(LastDep) \/ ~PkgSearch(packages, LastDep))) =>
             (lastLine.kind = "skip" /\ Produced = {})
    /\ \A e \in Entries : EndsWith(e.name, BibExt) => e.how = "package"

BibSkippedWitness ==
    /\ lastLine.kind = "skip"
    /\ LastDep = RefsBib
    /\ Len(archive) >= 1

(* C5: a relative .eps line whose companion exists produces exactly one
   entry, named <base>.pdf, read from the file the companion resolves to;
   without the companion the run ends there with a fatal error, no entry for
   the line and no .bbl entry. *)
EpsUsesCompanion ==
    (SomeLine /\ ~Absolute(LastDep) /\ EndsWith(LastDep, EpsExt)) =>
        LET base == SubSeq(LastDep, 1, Len(LastDep) - 4)
            pdf  == base \o ConvertedSuffix
        IN  IF exists(pdf)
              THEN \E e \in Produced :
                      /\ Produced = {e}
                      /\ e.name = base \o PdfExt
                      /\ e.src = realpath(pdf)
              ELSE /\ Produced = {}
                   /\ pc = "aborted"
                   /\ err = "MissingCompanion"
                   /\ \A e \in Entries : e.how # "bbl"

(* C6, as stated: no entry of the archive has a name ending in .eps. *)
NoEpsEntry == \A e \in Entries : ~EndsWith(e.name, EpsExt)

(* C6, amended: no entry made from a relative dependency line or by the
   .bbl step has a name ending in .eps; the only entries named *.eps come
   from the package rule. *)
NoEpsEntryUnlessPackage ==
    \A e \in Entries : EndsWith(e.name, EpsExt) => e.how = "package"

NoEpsEntryWitness ==
    /\ \E e \in Entries : e.how = "eps" /\ EndsWith(e.name, PdfExt)
    /\ pc = "done"

(* C7, as stated: a dependency line ending in -eps-converted-to.pdf never
   produces an entry. *)
ConvertedNeverAdded ==
    (SomeLine /\ EndsWith(LastDep, ConvertedSuffix)) => Produced = {}

(* C7, amended: a dependency line ending in -eps-converted-to.pdf that is
   relative, or that is absolute and not selected by pkg_re, is skipped and
   produces no entry. *)
ConvertedSkippedUnlessPackage ==
    (SomeLine /\ EndsWith(LastDep, ConvertedSuffix)
       /\ (~Absolute(LastDep) \/ ~PkgSearch(packages, LastDep))) =>
          (lastLine.kind = "skip" /\ Produced = {})

ConvertedSkippedWitness ==
    /\ lastLine.kind = "skip"
    /\ LastDep = PlotConverted
    /\ \E e \in Entries : e.name = PlotPdf /\ e.how = "eps"

(* C10: when the stream ends before the end marker was read, whether before
   the start marker, right after it or inside the block, the run ends with
   the "Unexpected EOF" error and with no other. *)
EarlyEndIsUnexpectedEOF ==
    eofAt # "none" => (pc = "aborted" /\ err = "UnexpectedEOF")

----------------------------------------------------------------------------
(* Properties of strip_comment *)

(* a line as iteration over a text file yields it: '\n' at the end only *)
IsLine(s) == \A i \in 1..Len(s) : s[i] = "\n" => i = Len(s)

Unescaped(s) == {i \in 1..Len(s) : s[i] = "%" /\ (i = 1 \/ s[i - 1] # "\\")}

Terminator(s) == IF s # <<>> /\ s[Len(s)] = "\n" THEN <<"\n">> ELSE <<>>

(* C8, as stated: the first unescaped percent sign and what follows it on
   the line are removed. *)
CommentAndPercentRemoved ==
    (stage >= 1 /\ IsLine(text) /\ Unescaped(text) # {}) =>
        once \in {SubSeq(text, 1, SetMin(Unescaped(text)) - 1),
                  SubSeq(text, 1, SetMin(Unescaped(text)) - 1) \o Terminator(text)}

(* C8, amended: what follows the first unescaped percent sign on the line is
   removed, the percent sign itself and the line terminator are kept, the
   text before it (every \% included) is unchanged, and a line with no
   unescaped percent sign is returned unchanged. *)
CommentRemovedPercentKept ==
    (stage >= 1 /\ IsLine(text)) =>
        IF Unescaped(text) # {}
          THEN once = SubSeq(text, 1, SetMin(Unescaped(text))) \o Terminator(text)
          ELSE once = text

CommentRemovedWitness ==
    /\ stage >= 1
    /\ IsLine(text)
    /\ Unescaped(text) # {}
    /\ Contains(SubSeq(text, 1, SetMin(Unescaped(text)) - 1), <<"\\", "%">>)
    /\ Len(once) < Len(text)

(* C9: stripping the stripped line again changes nothing. *)
StripIdempotent == stage = 2 => twice = once

StripIdempotentWitness ==
    /\ stage = 2
    /\ once # text
    /\ Unescaped(once) # {}

----------------------------------------------------------------------------
(* Properties of main() around collect() *)

(* C11: the archive is finalized at most once; it has been finalized once
   when the program ends successfully; and it has not been finalized in any
   other state, in particular not when the run has ended with an exception,
   with the exit status of a failed build, or with a usage error. *)
ArchiveFinalizedOnce ==
    /\ closes <= 1
    /\ pc = "done" => (closes = 1 /\ opened /\ exitCode = 0)
    /\ pc # "done" => closes = 0

ArchiveNotFinalizedWitness ==
    /\ pc = "exited"
    /\ exitCode = 12
    /\ opened
    /\ archive # <<>>
    /\ closes = 0

(* the package lists holding the same names as ps in some order *)
Reordered(ps) ==
    {qs \in PackageLists :
        /\ Len(qs) = Len(ps)
        /\ {qs[i] : i \in 1..Len(qs)} = {ps[i] : i \in 1..Len(ps)}}

(* C12: an absolute dependency path produces an entry under the package list
   of the run exactly when the classifier includes it under every list that
   holds the same names in another order. *)
PackageOrderIrrelevant ==
    (SomeLine /\ Absolute(LastDep)) =>
        \A qs \in Reordered(packages) :
            (Produced # {}) <=> (AbsBranch(LastDep, qs).kind = "add")

HasDotOrSeparator(n) == \E i \in 1..Len(n) : n[i] \in {".", "/"}

Unguessable ==
    base_name = <<>> /\ Cardinality(IF Cardinality(cands) > 1
                                      THEN cands \cap {Main, Paper}
                                      ELSE cands) # 1

(* C13, as stated: a base name that contains '.' or a path separator ends
   the program with a usage error, the archive not opened and latexmk not
   started. *)
InvalidNameIsUsageError ==
    [][(pc = "check" /\ HasDotOrSeparator(base_name)) =>
          (pc' = "usage" /\ ~opened' /\ ~launched')]_vars

(* C13, amended: a base name that cannot be guessed, or that contains '.' or
   a path separator once a trailing '.tex' has been removed from it, ends the
   program with a usage error of exit status 2; a usage error happens with
   the archive not opened and latexmk not started; the archive is opened and
   latexmk is started only past the checks, with a name free of '.' and of
   '/', and latexmk only after the archive was opened. *)
NameCheckedBeforeBuild ==
    [][/\ (pc = "args" /\ Unguessable) => pc' = "usage"
       /\ (pc = "check" /\ HasDotOrSeparator(WithoutTex(base_name))) => pc' = "usage"
       /\ pc' = "usage" => (~opened' /\ ~launched' /\ exitCode' = 2)
       /\ (opened' \/ launched') =>
             /\ pc' \notin {"args", "check", "open", "usage"}
             /\ base_name' # <<>>
             /\ ~HasDotOrSeparator(base_name')
       /\ launched' => opened'
       /\ pc' \in {"open", "launch"} => ~HasDotOrSeparator(base_name')]_vars

NameCheckedWitness ==
    /\ pc = "usage"
    /\ base_name = DottedName
    /\ exitCode = 2
    /\ ~opened
    /\ ~launched

(* C14: with no base name given, the guess is the only stem of the working
   directory when there is exactly one; with several stems it is the only
   one among them that is `main` or `paper`, when exactly one is; and in
   every other case the program ends with a usage error. *)
GuessFollowsRule ==
    [][(pc = "args" /\ base_name = <<>>) =>
          IF Cardinality(cands) = 1
            THEN base_name' \in cands /\ pc' = "check"
          ELSE IF Cardinality(cands) > 1 /\ Cardinality(cands \cap {Main, Paper}) = 1
            THEN base_name' \in cands \cap {Main, Paper} /\ pc' = "check"
          ELSE pc' = "usage" /\ err' = "UsageError" /\ exitCode' = 2]_vars

GuessFromKnownNamesWitness ==
    /\ pc = "check"
    /\ base_name = Paper
    /\ cands = {Paper, Notes, DottedName}

----------------------------------------------------------------------------
(* Properties of the parser and of the pipeline *)

(* C15, as stated: the read after the start marker enters the block when the
   line is exactly the header of the base name, and otherwise ends the run
   with nothing classified and nothing written. *)
EntersBlockOnExactHeader ==
    [][(pc = "header" /\ pc' # "header") =>
          IF next_line = base_name \o HeaderSuffix \o <<"\n">>
            THEN pc' = "block"
            ELSE pc' = "aborted" /\ archive' = <<>> /\ classified' = <<>>]_vars

(* C15, amended: the read after the start marker enters the block when the
   line, with the whitespace at its two ends removed, is the header of the
   base name; for any other line, and at the end of the stream, it ends the
   run with an error, nothing classified and nothing written. *)
EntersBlockOnStrippedHeader ==
    [][(pc = "header" /\ pc' # "header") =>
          IF Strip(next_line) = base_name \o HeaderSuffix
            THEN pc' = "block" /\ err' = "none"
            ELSE /\ pc' = "aborted"
                 /\ err' = "BadHeader"
                 /\ exitCode' = 1
                 /\ archive' = <<>>
                 /\ classified' = <<>>]_vars

BadHeaderWitness ==
    /\ pc = "aborted"
    /\ err = "BadHeader"
    /\ eofAt = "none"
    /\ archive = <<>>
    /\ classified = <<>>

(* the phases of collect() in the order of its code; clean and bbl are the
   two branches taken once the exit status is known *)
PhaseRank ==
    [scan |-> 1, header |-> 2, block |-> 3, drain |-> 4, wait |-> 5,
     clean |-> 6, bbl |-> 6, exited |-> 7, returned |-> 7, done |-> 8]

(* C16: collect() goes through its phases in order, one at a time and never
   back, unless an error ends the run; it leaves the block only on the end
   marker; it starts to wait for latexmk only with the rest of the output
   read up to the end of the stream; and it looks at the exit status, adds
   the .bbl entry and finishes only once latexmk has exited. *)
PhasesInOrder ==
    [][/\ (pc \in DOMAIN PhaseRank /\ pc' # pc) =>
             \/ pc' \in {"aborted", "hung"}
             \/ pc' \in DOMAIN PhaseRank /\ PhaseRank[pc'] = PhaseRank[pc] + 1
       /\ pc \in {"done", "exited", "aborted", "hung", "usage"} => pc' = pc
       /\ (pc = "block" /\ pc' = "drain") =>
             next_line = EndPrefix \o base_name \o ColonNL
       /\ pc' = "wait" => (pipe' = <<>> /\ childPc' = "exited")
       /\ pc' \in {"clean", "bbl", "returned", "done", "exited"} =>
             (childPc' = "exited" /\ returncode' \in ExitCodes)
       /\ (\E i \in 1..Len(archive') : archive'[i].how = "bbl") =>
             pc' \in {"returned", "done"}]_vars

PhasesInOrderWitness ==
    /\ pc = "done"
    /\ returncode = 0
    /\ nNoise >= 1
    /\ Len(archive) >= 2
    /\ Len(classified) >= 2

(* C17: an entry made by the package rule, the .eps rule or the fallback
   rule has the content of the file at the end of the chain of links that
   starts at the dependency (for .eps: at its companion), which is not a
   link, and has the name the rule computes from the dependency path. *)
ResolvedContentOriginalName ==
    SomeLine =>
        \A e \in Produced :
            e.how \in {"package", "eps", "other"} =>
                LET base == SubSeq(LastDep, 1, Len(LastDep) - 4)
                    from == IF e.how = "eps" THEN base \o ConvertedSuffix ELSE LastDep
                    name == IF e.how = "package" THEN Basename(LastDep)
                            ELSE IF e.how = "eps" THEN base \o PdfExt
                            ELSE LastDep
                IN  /\ e.src = realpath(from)
                    /\ ~islink(e.src)
                    /\ e.name = name

(* C18: no two entries of the archive have the same name. *)
UniqueEntryNames ==
    \A i, j \in 1..Len(archive) : archive[i].name = archive[j].name => i = j

(* collect() is inside a read of the stdout pipe, or inside wait() *)
CollectorBlocked ==
    \/ pc \in {"scan", "header", "block", "drain"} /\ ~CanRead
    \/ pc = "wait" /\ childPc # "exited"

(* C19: there is no state in which latexmk is blocked in a write to a full
   pipe while collect() is blocked in a read or in the wait for latexmk. *)
NoPipeDeadlock == ~(childBlocked /\ CollectorBlocked)

====
